---- MODULE Spec2Model ----
(***************************************************************************)
(* A model of the flare-system-client finalizer pipeline                   *)
(* (client/finalizer/finalizer_client.go) and of the system manager        *)
(* contract client (SignNewSigningPolicy, SigningPolicyHash).              *)
(*                                                                         *)
(* Spec      the finalizer client: signing policy storage, submission      *)
(*           storage, ProcessSubmissionData and the finalizer queue.       *)
(* SpecHash  SigningPolicyHash applied, twice, to a byte slice.            *)
(* SpecSign  SignNewSigningPolicy: sendSignNewSigningPolicy run by         *)
(*           ExecuteWithRetry.                                             *)
(* SpecQueue the finalization queue and its worker.                        *)
(* SpecFeed  VotePowerBlockSelectedListener and its consumer.              *)
(***************************************************************************)
EXTENDS Integers, Sequences, FiniteSets, TLC

(***************************************************************************)
(* Bounds of the model.                                                    *)
(***************************************************************************)
\* Voting rounds are 0..MaxVotingRound.
MaxVotingRound == 2
\* A submissionListenerResponse carries at most MaxPayload payload items.
MaxPayload == 2
\* A signing policy passed to SigningPolicyHash is at most MaxChunks chunks long.
MaxChunks == 4
\* The retry budget SignNewSigningPolicy passes to ExecuteWithRetry.
MaxTxSendRetries == 3
\* queueProcessor.Add calls made in a behaviour.
MaxTasks == 2
\* The listener's clock stops at MaxTime; the log store holds MaxLogs logs.
MaxTime == 4

MaxLogs == 3

VotingRounds == 0..MaxVotingRound

\* The signers that occur in submissions; "X" is in no policy's weight table.
Signers == {"A", "B", "C", "X"}

(***************************************************************************)
(* Signing policies. A policy is immutable: rewardEpochId,                 *)
(* startVotingRoundId and the signer weight table. No policy starts at     *)
(* round 0, so that round 0 is "before the first known policy".            *)
(***************************************************************************)
Policy1 ==
    [rewardEpochId |-> 1, startVotingRoundId |-> 1,
     signerWeights |-> [s \in {"A", "B", "C"} |->
                          CASE s = "A" -> 40 [] s = "B" -> 35 [] OTHER -> 25]]

Policy2 ==
    [rewardEpochId |-> 2, startVotingRoundId |-> 2,
     signerWeights |-> [s \in {"B", "C"} |-> IF s = "B" THEN 10 ELSE 390]]

Policies == {Policy1, Policy2}

\* The absent policy (a nil *signingPolicy).
NoPolicy == [rewardEpochId |-> -1, startVotingRoundId |-> -1,
             signerWeights |-> << >>]

RECURSIVE SumWeights(_, _)
\* The sum of the weights sp gives to the signers of set S; a signer that is
\* not in its table has none.
SumWeights(sp, S) ==
    IF S = {} THEN 0
    ELSE LET s == CHOOSE x \in S : TRUE
         IN  (IF s \in DOMAIN sp.signerWeights THEN sp.signerWeights[s] ELSE 0)
             + SumWeights(sp, S \ {s})

\* The policy's total signer weight.
TotalWeight(sp) == SumWeights(sp, DOMAIN sp.signerWeights)

VARIABLES
    spList,        \* signingPolicyStorage: the stored policies, ordered by start
    submissions,   \* submissionStorage: voting round -> VotingRoundAggregate
    queue,         \* queueProcessor: the queued voting rounds, oldest first
    pc,            \* ProcessSubmissionData: "idle" or "loop"
    payloadLen,    \* len(slr.payload) of the current (or last) call
    idx,           \* payload items the loop has taken so far
    ret,           \* what the last call returned: "none", "nil" or "err"
    lastErr,       \* outcome of the last loop iteration
    errRound,      \* the voting round named by the error returned, else -1
    addCalls,      \* history: queueProcessor.Add invocations per voting round
    usedPolicies   \* history: per round, the policies given to its accepted adds

finVars == <<spList, submissions, queue, pc, payloadLen, idx, ret, lastErr,
             errRound, addCalls, usedPolicies>>

VARIABLES
    hashIn,        \* the caller's slice: its bytes (data) and the rest of its
                   \* backing array up to the capacity (spare)
    hashPc,        \* SigningPolicyHash calls made on hashIn: 0, 1 or 2
    hashOut        \* the results of the calls, in order

hashVars == <<hashIn, hashPc, hashOut>>

VARIABLES
    signPc,        \* SignNewSigningPolicy: "idle", "loop" (ExecuteWithRetry's
                   \* loop), "hash", "sign", "submit", "wait" (the next step of
                   \* sendSignNewSigningPolicy), "done" or "panic"
    signIn,        \* the arguments: rewardEpochId and signingPolicy
    signLocals,    \* sendSignNewSigningPolicy: newSigningPolicyHash, signature
    sendErrs,      \* history: what each attempt's sendSignNewSigningPolicy returned
    status,        \* the ExecuteStatus delivered: "none", "success" or "failed"
    steps,         \* history: the steps of the current attempt, with their outcome
    sentTxs,       \* the SignNewSigningPolicy transactions sent to the contract
    logged         \* "New signing policy sent" log lines written

signVars == <<signPc, signIn, signLocals, sendErrs, status, steps, sentTxs,
              logged>>

VARIABLES
    finalized,     \* queueProcessor: the voting rounds finalized with success
    workPc,        \* per worker of queueProcessor.Run: "idle" (blocked on
                   \* dequeue), "submit" or "wait" (the next step of finalize)
    current,       \* per worker: the voting round of its task, else -1
    attempt,       \* per worker: failed attempts of the current (or last) task
    finalizeTxs,   \* history: finalize transactions sent per voting round
    tasksAdded     \* history: queueProcessor.Add calls made

workVars == <<finalized, workPc, current, attempt, finalizeTxs, tasksAdded>>

VARIABLES
    feedPc,        \* VotePowerBlockSelectedListener: "start" (not called),
                   \* "panic", "tick" (the goroutine waits for the ticker),
                   \* "send" (blocked on out <- powerBlockData), "stopped"
    now,           \* time.Now().Unix()
    eventRangeStart, \* the goroutine's local eventRangeStart
    logsDb,        \* the log store: the matching logs, oldest first
    outCh,         \* events handed to out and not yet received
    outReturned,   \* the caller has got the channel (line 129)
    topicErrs,     \* history: what each chain.EventIDFromMetadata call returned
    queries,       \* history: the FetchLogsByAddressAndTopic0 calls, in order
    received       \* history: the events the consumer received, in order

feedVars == <<feedPc, now, eventRangeStart, logsDb, outCh, outReturned,
              topicErrs, queries, received>>

vars == <<finVars, hashVars, signVars, workVars, feedVars>>

\* What the finalizer client, the hash calls, the signing client, the queue
\* processor and the listener leave alone.
notFinVars == <<hashVars, signVars, workVars, feedVars>>
notHashVars == <<finVars, signVars, workVars, feedVars>>
notSignVars == <<finVars, hashVars, workVars, feedVars>>
notWorkVars == <<spList, submissions, pc, payloadLen, idx, ret, lastErr,
                 errRound, addCalls, usedPolicies, hashVars, signVars,
                 feedVars>>
notFeedVars == <<finVars, hashVars, signVars, workVars>>

(***************************************************************************)
(* signingPolicyStorage (Signing Policy Store).                            *)
(***************************************************************************)
\* The position at which a policy starting at round `start` is inserted:
\* after every stored policy that starts earlier.
InsertPos(list, start) ==
    Cardinality({i \in 1..Len(list) : list[i].startVotingRoundId < start}) + 1

\* signingPolicyStorage.Add on an unordered list: a plain append.
StorageAddAppend(list, sp) ==
    IF \E i \in 1..Len(list) : list[i].rewardEpochId = sp.rewardEpochId
    THEN list
    ELSE Append(list, sp)

\* signingPolicyStorage.Add: insert keyed by startVotingRoundId, keeping the
\* list ordered; inserting a reward epoch that is already stored is a no-op.
StorageAdd(list, sp) ==
    IF \E i \in 1..Len(list) : list[i].rewardEpochId = sp.rewardEpochId
    THEN list
    ELSE LET k == InsertPos(list, sp.startVotingRoundId)
         IN  SubSeq(list, 1, k - 1) \o <<sp>> \o SubSeq(list, k, Len(list))

RECURSIVE ScanBack(_, _, _)
\* Walk the list from position i down to 1; the first policy that starts at or
\* before round r is the answer, NoPolicy when there is none.
ScanBack(list, i, r) ==
    IF i = 0 THEN NoPolicy
    ELSE IF list[i].startVotingRoundId <= r THEN list[i]
    ELSE ScanBack(list, i - 1, r)

\* signingPolicyStorage.GetForVotingRound.
GetForVotingRound(list, r) == ScanBack(list, Len(list), r)

(***************************************************************************)
(* submissionStorage (Submission Aggregator).                              *)
(***************************************************************************)
\* The aggregate of a round for which nothing was accepted yet.
EmptyAggregate ==
    [submittedWeight |-> 0, seenSigners |-> {}, thresholdReached |-> FALSE]

Aggregate(subs, r) == IF r \in DOMAIN subs THEN subs[r] ELSE EmptyAggregate

\* The storage with round r's aggregate set to a (created when it is new).
WithAggregate(subs, r, a) ==
    [x \in DOMAIN subs \cup {r} |-> IF x = r THEN a ELSE subs[x]]

\* A comparison that forgets the majority fraction.
OverThresholdWhole(weight, sp) == weight > TotalWeight(sp)

\* The threshold comparison: strictly more than half of the policy's total
\* signer weight.
OverThreshold(weight, sp) == 2 * weight > TotalWeight(sp)

\* A flag that is recomputed from the comparison at every add.
NextThresholdReachedRecomputed(reached, weight, sp) == OverThreshold(weight, sp)

\* The aggregate's flag after an accepted add: set by the comparison, and
\* never cleared once set.
NextThresholdReached(reached, weight, sp) ==
    reached \/ OverThreshold(weight, sp)

\* A rejection that has already recorded the signer as seen.
RejectedStorageMarksSigner(subs, item) ==
    WithAggregate(subs, item.votingRoundId,
                  [Aggregate(subs, item.votingRoundId) EXCEPT
                     !.seenSigners = @ \cup {item.signer}])

\* The storage after a rejected add: as it was.
RejectedStorage(subs, item) == subs

\* submissionStorage.Add(payload, sp): the result, with the storage after the
\* call in field subs. A signer that is not in the policy's weight table
\* (UnknownSigner) and a signer that already submitted for the round
\* (DuplicateSubmission) are rejected. An accepted submission adds the
\* signer's weight to the round's aggregate, which is created on the first
\* one; the result's thresholdReached is the aggregate's flag.
SubmissionAdd(subs, item, sp) ==
    LET a == Aggregate(subs, item.votingRoundId)
    IN  IF item.signer \notin DOMAIN sp.signerWeights
        THEN [err |-> "UnknownSigner", subs |-> RejectedStorage(subs, item),
              weightAdded |-> 0, totalWeight |-> a.submittedWeight,
              thresholdReached |-> a.thresholdReached]
        ELSE IF item.signer \in a.seenSigners
        THEN [err |-> "DuplicateSubmission", subs |-> RejectedStorage(subs, item),
              weightAdded |-> 0, totalWeight |-> a.submittedWeight,
              thresholdReached |-> a.thresholdReached]
        ELSE LET w   == sp.signerWeights[item.signer]
                 tot == a.submittedWeight + w
                 b   == [submittedWeight  |-> tot,
                         seenSigners      |-> a.seenSigners \cup {item.signer},
                         thresholdReached |->
                             NextThresholdReached(a.thresholdReached, tot, sp)]
             IN  [err |-> "none",
                  subs |-> WithAggregate(subs, item.votingRoundId, b),
                  weightAdded |-> w, totalWeight |-> tot,
                  thresholdReached |-> b.thresholdReached]

(***************************************************************************)
(* queueProcessor (Finalization Queue).                                    *)
(***************************************************************************)
\* queueProcessor.Add: enqueue the round unless it is queued already.
QueueAdd(q, r) ==
    IF \E i \in 1..Len(q) : q[i] = r THEN q ELSE Append(q, r)

(***************************************************************************)
(* SigningPolicyHash. A 32-byte value is a block: a chunk of the input     *)
(* (its bytes) or a digest (the two blocks it is the Keccak256 of).        *)
(* Keccak256 is kept symbolic: distinct arguments give distinct digests.   *)
(***************************************************************************)
ChunkSize == 32

Chunk(bytes) == [bytes |-> bytes, of |-> << >>]

Keccak256(x, y) == [bytes |-> << >>, of |-> <<x, y>>]

Zeros(n) == [i \in 1..n |-> 0]

\* The Go runtime's allocation sizes up to 256 bytes.
SizeClasses == {8, 16, 24, 32, 48, 64, 80, 96, 112, 128, 144, 160, 176, 192,
                208, 224, 240, 256}

RoundUpSize(n) ==
    IF \E c \in SizeClasses : c >= n
    THEN CHOOSE c \in SizeClasses : c >= n /\ \A d \in SizeClasses : d >= n => c <= d
    ELSE n

\* The capacity append gives a byte slice it has to reallocate.
GrowCap(oldCap, needed) ==
    RoundUpSize(IF needed > 2 * oldCap THEN needed ELSE 2 * oldCap)

\* append(s, make([]byte, n)...): in place when the capacity allows it, else
\* into a new array whose tail is zeroed. Field fresh tells the two apart.
GoAppendZeros(sl, n) ==
    IF n <= Len(sl.spare)
    THEN [data  |-> sl.data \o Zeros(n),
          spare |-> SubSeq(sl.spare, n + 1, Len(sl.spare)),
          fresh |-> FALSE]
    ELSE LET need == Len(sl.data) + n
             cap  == GrowCap(Len(sl.data) + Len(sl.spare), need)
         IN  [data |-> sl.data \o Zeros(n), spare |-> Zeros(cap - need),
              fresh |-> TRUE]

\* signingPolicy[lo:hi] of a slice: the bytes of the backing array, which may
\* lie beyond the length but not beyond the capacity.
Backing(sl) == sl.data \o sl.spare

\* The slice after the padding of lines 91-93.
Padded(sl) ==
    IF Len(sl.data) % ChunkSize # 0
    THEN GoAppendZeros(sl, ChunkSize - (Len(sl.data) % ChunkSize))
    ELSE [data |-> sl.data, spare |-> sl.spare, fresh |-> FALSE]

\* Chunk i (from 0) of the padded slice.
ChunkAt(p, i) == Chunk(SubSeq(Backing(p), i * ChunkSize + 1, (i + 1) * ChunkSize))

\* A loop body that passes its arguments to Keccak256 in the other order.
FoldStepSwapped(hash, chunk) == Keccak256(chunk, hash)

\* The loop body: hash = crypto.Keccak256(hash, signingPolicy[i*32:(i+1)*32]).
FoldStep(hash, chunk) == Keccak256(hash, chunk)

RECURSIVE HashLoop(_, _, _)
\* The for loop from index i on: while i < len(signingPolicy)/32.
HashLoop(hash, p, i) ==
    IF i < Len(p.data) \div ChunkSize
    THEN HashLoop(FoldStep(hash, ChunkAt(p, i)), p, i + 1)
    ELSE hash

\* SigningPolicyHash(signingPolicy): the hash, or a panic when a slice
\* expression of line 94 reaches beyond the capacity.
SigningPolicyHash(sl) ==
    LET p == Padded(sl)
    IN  IF Len(Backing(p)) < 2 * ChunkSize
        THEN [panic |-> TRUE, hash |-> Chunk(<< >>)]
        ELSE [panic |-> FALSE,
              hash  |-> HashLoop(Keccak256(ChunkAt(p, 0), ChunkAt(p, 1)), p, 2)]

\* The caller's slice after a call: same length and capacity; an append in
\* place has zeroed the bytes after its length.
AfterHash(sl) ==
    LET p == Padded(sl)
    IN  IF p.fresh THEN sl
        ELSE [data  |-> sl.data,
              spare |-> SubSeq(Backing(p), Len(sl.data) + 1, Len(Backing(p)))]

\* The byte slices the hash is applied to: every length up to MaxChunks
\* chunks, three fillings, with and without spare capacity holding old bytes.
Filling(kind, n) ==
    [i \in 1..n |-> CASE kind = "zero"  -> 0
                      [] kind = "chunk" -> (i - 1) \div ChunkSize + 1
                      [] OTHER          -> i % 251]

HashInputs ==
    {[data |-> Filling(kind, n), spare |-> [i \in 1..extra |-> 7]] :
        kind \in {"zero", "chunk", "index"},
        n \in 0..(MaxChunks * ChunkSize),
        extra \in {0, 40}}

HashIdle ==
    /\ hashIn = [data |-> << >>, spare |-> << >>]
    /\ hashPc = 0
    /\ hashOut = << >>

HashInit ==
    /\ hashIn \in HashInputs
    /\ hashPc = 0
    /\ hashOut = << >>

\* One call of SigningPolicyHash on the caller's slice.
CallSigningPolicyHash ==
    /\ hashPc < 2
    /\ hashOut' = Append(hashOut, SigningPolicyHash(hashIn))
    /\ hashIn' = AfterHash(hashIn)
    /\ hashPc' = hashPc + 1
    /\ UNCHANGED notHashVars

(***************************************************************************)
(* SignNewSigningPolicy and sendSignNewSigningPolicy.                      *)
(***************************************************************************)
SignatureLength == 65

\* crypto.Sign: the 65 bytes R || S || V, kept symbolic.
CryptoSign(msg) ==
    [i \in 1..SignatureLength |->
        IF i <= 32 THEN [part |-> "r", i |-> i]
        ELSE IF i <= 64 THEN [part |-> "s", i |-> i - 32]
        ELSE [part |-> "v", i |-> 1]]

\* accounts.TextHash: the prefixed text hash of the data, kept symbolic.
TextHash(data) == [bytes |-> << >>, of |-> <<data>>]

\* system.FlareSystemManagerSignature{V: hashSignature[0],
\* R: hashSignature[1:33], S: hashSignature[33:65]}.
MakeSignature(hashSignature) ==
    [V |-> hashSignature[1],
     R |-> SubSeq(hashSignature, 2, 33),
     S |-> SubSeq(hashSignature, 34, 65)]

\* The signing policies SignNewSigningPolicy is called with: two chunks, more
\* than two with padding, and one shorter than a chunk.
SignPolicies ==
    {[data |-> Filling("chunk", n), spare |-> << >>] : n \in {20, 64, 70}}

NoLocals == [hash |-> Chunk(<< >>), signature |-> << >>]

SignIdle ==
    /\ signPc = "idle"
    /\ signIn = [rewardEpochId |-> 0, signingPolicy |-> [data |-> << >>, spare |-> << >>]]
    /\ signLocals = NoLocals
    /\ sendErrs = << >>
    /\ status = "none"
    /\ steps = << >>
    /\ sentTxs = << >>
    /\ logged = 0

\* SignNewSigningPolicy(rewardEpochId, signingPolicy): ExecuteWithRetry starts
\* its goroutine and the channel is returned.
SignNewSigningPolicyCall ==
    /\ signPc = "idle"
    /\ \E e \in 1..2, sp \in SignPolicies :
          signIn' = [rewardEpochId |-> e, signingPolicy |-> sp]
    /\ signPc' = "loop"
    /\ UNCHANGED <<signLocals, sendErrs, status, steps, sentTxs, logged>>
    /\ UNCHANGED notSignVars

\* ExecuteWithRetry's loop: another attempt while fewer than maxRetries were
\* made, else the failed completion is delivered.
RetryLoop ==
    /\ signPc = "loop"
    /\ IF Len(sendErrs) < MaxTxSendRetries
       THEN /\ signPc' = "hash"
            /\ steps' = << >>
            /\ signLocals' = NoLocals
            /\ UNCHANGED status
       ELSE /\ signPc' = "done"
            /\ status' = "failed"
            /\ UNCHANGED <<steps, signLocals>>
    /\ UNCHANGED <<signIn, sendErrs, sentTxs, logged>>
    /\ UNCHANGED notSignVars

\* A retried operation that drops the error of sendSignNewSigningPolicy.
RetriedOperationDropsError(err) == "nil"

\* The function SignNewSigningPolicy hands to ExecuteWithRetry: the error of
\* sendSignNewSigningPolicy, wrapped, or nil.
RetriedOperation(err) == IF err # "nil" THEN "wrapped" ELSE "nil"

\* sendSignNewSigningPolicy returns err: the attempt is over. ExecuteWithRetry
\* delivers success when the operation returned nil and loops otherwise.
SendReturns(err) ==
    /\ sendErrs' = Append(sendErrs, err)
    /\ IF RetriedOperation(err) = "nil"
       THEN signPc' = "done" /\ status' = "success"
       ELSE signPc' = "loop" /\ UNCHANGED status

\* newSigningPolicyHash := SigningPolicyHash(signingPolicy)
SendHash ==
    /\ signPc = "hash"
    /\ LET h == SigningPolicyHash(signIn.signingPolicy)
       IN  IF h.panic
           THEN /\ signPc' = "panic"
                /\ steps' = Append(steps, [step |-> "hash", ok |-> FALSE])
                /\ UNCHANGED signLocals
           ELSE /\ signPc' = "sign"
                /\ steps' = Append(steps, [step |-> "hash", ok |-> TRUE])
                /\ signLocals' = [signLocals EXCEPT !.hash = h.hash]
    /\ UNCHANGED <<signIn, sendErrs, status, sentTxs, logged>>
    /\ UNCHANGED notSignVars

\* hashSignature, err := crypto.Sign(accounts.TextHash(hash), privateKey)
SendSign ==
    /\ signPc = "sign"
    /\ \E err \in {"nil", "sign"} :
          /\ steps' = Append(steps, [step |-> "sign", ok |-> err = "nil"])
          /\ IF err # "nil"
             THEN /\ SendReturns(err)
                  /\ UNCHANGED signLocals
             ELSE /\ signLocals' =
                        [signLocals EXCEPT !.signature =
                            MakeSignature(CryptoSign(TextHash(signLocals.hash)))]
                  /\ signPc' = "submit"
                  /\ UNCHANGED <<sendErrs, status>>
    /\ UNCHANGED <<signIn, sentTxs, logged>>
    /\ UNCHANGED notSignVars

\* tx, err := flareSystemManager.SignNewSigningPolicy(txOpts, rewardEpochId,
\*                                                    hash, signature)
SendSubmit ==
    /\ signPc = "submit"
    /\ \E err \in {"nil", "submit"} :
          /\ steps' = Append(steps, [step |-> "submit", ok |-> err = "nil"])
          /\ IF err # "nil"
             THEN /\ SendReturns(err)
                  /\ UNCHANGED sentTxs
             ELSE /\ sentTxs' = Append(sentTxs,
                                       [rewardEpochId |-> signIn.rewardEpochId,
                                        hash          |-> signLocals.hash,
                                        signature     |-> signLocals.signature])
                  /\ signPc' = "wait"
                  /\ UNCHANGED <<sendErrs, status>>
    /\ UNCHANGED <<signIn, signLocals, logged>>
    /\ UNCHANGED notSignVars

\* A check of WaitUntilMined's error that never sees one.
MinedErrorIgnored(err) == FALSE

\* if err != nil, after WaitUntilMined.
MinedError(err) == err # "nil"

\* err = txVerifier.WaitUntilMined(from, tx, DefaultTxTimeout); on success the
\* log line is written and nil is returned.
SendWait ==
    /\ signPc = "wait"
    /\ \E err \in {"nil", "timeout"} :
          /\ steps' = Append(steps, [step |-> "wait", ok |-> err = "nil"])
          /\ IF MinedError(err)
             THEN /\ SendReturns(err)
                  /\ UNCHANGED logged
             ELSE /\ logged' = logged + 1
                  /\ SendReturns("nil")
    /\ UNCHANGED <<signIn, signLocals, sentTxs>>
    /\ UNCHANGED notSignVars

SignNext ==
    \/ SignNewSigningPolicyCall
    \/ RetryLoop
    \/ SendHash
    \/ SendSign
    \/ SendSubmit
    \/ SendWait

(***************************************************************************)
(* The initial state: NewFinalizerClient builds empty storages.            *)
(***************************************************************************)
FinInit ==
    /\ spList = << >>
    /\ submissions = << >>
    /\ queue = << >>
    /\ pc = "idle"
    /\ payloadLen = 0
    /\ idx = 0
    /\ ret = "none"
    /\ lastErr = "none"
    /\ errRound = -1
    /\ addCalls = [r \in VotingRounds |-> 0]
    /\ usedPolicies = [r \in VotingRounds |-> {}]

(***************************************************************************)
(* Run, first goroutine: a policy arrives from the listener and is stored. *)
(* The listener may deliver the policies in any order and more than once.  *)
(***************************************************************************)
AddSigningPolicy ==
    \E sp \in Policies :
        /\ spList' = StorageAdd(spList, sp)
        /\ UNCHANGED <<submissions, queue, pc, payloadLen, idx, ret, lastErr,
                       errRound, addCalls, usedPolicies>>
        /\ UNCHANGED notFinVars

(***************************************************************************)
(* ProcessSubmissionData(slr). The submission listener calls it with one   *)
(* response at a time; the policy goroutine runs between its loop          *)
(* iterations. The payload items are inputs: each is drawn when the loop   *)
(* reaches it.                                                             *)
(***************************************************************************)
ProcessSubmissionDataCall ==
    /\ pc = "idle"
    /\ \E n \in 0..MaxPayload : payloadLen' = n
    /\ idx' = 0
    /\ pc' = "loop"
    /\ ret' = "none"
    /\ lastErr' = "none"
    /\ errRound' = -1
    /\ UNCHANGED <<spList, submissions, queue, addCalls, usedPolicies>>
    /\ UNCHANGED notFinVars

\* The range loop is over: return nil.
ProcessSubmissionDataReturn ==
    /\ pc = "loop"
    /\ idx = payloadLen
    /\ pc' = "idle"
    /\ ret' = "nil"
    /\ UNCHANGED <<spList, submissions, queue, payloadLen, idx, lastErr,
                   errRound, addCalls, usedPolicies>>
    /\ UNCHANGED notFinVars

\* A variant of NoPolicyBranch that skips the item as an add error is skipped.
NoPolicyBranchContinues(item) ==
    /\ pc' = "loop"
    /\ ret' = ret
    /\ lastErr' = "NoPolicy"
    /\ errRound' = item.votingRoundId
    /\ UNCHANGED <<submissions, queue, addCalls, usedPolicies>>

\* sp == nil: return an error that names the voting round.
NoPolicyBranch(item) ==
    /\ pc' = "idle"
    /\ ret' = "err"
    /\ lastErr' = "NoPolicy"
    /\ errRound' = item.votingRoundId
    /\ UNCHANGED <<submissions, queue, addCalls, usedPolicies>>

\* A variant of AddErrorBranch that returns the error of submissionStorage.Add.
AddErrorBranchReturns(item, res) ==
    /\ pc' = "idle"
    /\ ret' = "err"
    /\ lastErr' = res.err
    /\ submissions' = res.subs
    /\ UNCHANGED <<queue, errRound, addCalls, usedPolicies>>

\* submissionStorage.Add failed: log and continue with the next item.
AddErrorBranch(item, res) ==
    /\ pc' = "loop"
    /\ ret' = ret
    /\ lastErr' = res.err
    /\ submissions' = res.subs
    /\ UNCHANGED <<queue, errRound, addCalls, usedPolicies>>

\* The submission was added: enqueue the round when the result says the
\* threshold is reached.
AddedBranch(item, sp, res) ==
    /\ pc' = "loop"
    /\ ret' = ret
    /\ lastErr' = "none"
    /\ submissions' = res.subs
    /\ UNCHANGED errRound
    /\ usedPolicies' = [usedPolicies EXCEPT ![item.votingRoundId] = @ \cup {sp}]
    /\ IF res.thresholdReached
       THEN /\ queue' = QueueAdd(queue, item.votingRoundId)
            /\ addCalls' = [addCalls EXCEPT ![item.votingRoundId] = @ + 1]
       ELSE UNCHANGED <<queue, addCalls>>

\* One iteration of the range loop.
ProcessPayloadItem ==
    /\ pc = "loop"
    /\ idx < payloadLen
    /\ idx' = idx + 1
    /\ UNCHANGED <<spList, payloadLen>>
    /\ UNCHANGED notFinVars
    /\ \E r \in VotingRounds, s \in Signers :
         LET item == [votingRoundId |-> r, signer |-> s]
             sp   == GetForVotingRound(spList, r)
         IN  IF sp = NoPolicy
             THEN NoPolicyBranch(item)
             ELSE LET res == SubmissionAdd(submissions, item, sp)
                  IN  IF res.err # "none"
                      THEN AddErrorBranch(item, res)
                      ELSE AddedBranch(item, sp, res)

FinNext ==
    \/ AddSigningPolicy
    \/ ProcessSubmissionDataCall
    \/ ProcessPayloadItem
    \/ ProcessSubmissionDataReturn

(***************************************************************************)
(* queueProcessor (Finalization Queue): Add and Run. A task stays in the   *)
(* queue while the worker finalizes it; it is removed on success and when  *)
(* its attempts are exhausted.                                             *)
(***************************************************************************)
\* A variant of Run that starts queueProcessor.Run in two goroutines.
QueueWorkersTwice == {"run", "run2"}

\* Run, third goroutine: the one worker of the finalization queue.
QueueWorkers == {"run"}

WorkIdle ==
    /\ finalized = {}
    /\ workPc = [w \in QueueWorkers |-> "idle"]
    /\ current = [w \in QueueWorkers |-> -1]
    /\ attempt = [w \in QueueWorkers |-> 0]
    /\ finalizeTxs = [r \in VotingRounds |-> 0]
    /\ tasksAdded = 0

\* queueProcessor.Add(task): a no-op for a queued or a finalized round.
QueueProcessorAdd(q, fin, r) == IF r \in fin THEN q ELSE QueueAdd(q, r)

\* The routing loop calls queueProcessor.Add for a round whose threshold is
\* reached (line 104); it does so again for every later submission of it.
EnqueueReady ==
    /\ tasksAdded < MaxTasks
    /\ tasksAdded' = tasksAdded + 1
    /\ \E r \in VotingRounds : queue' = QueueProcessorAdd(queue, finalized, r)
    /\ UNCHANGED <<finalized, workPc, current, attempt, finalizeTxs>>
    /\ UNCHANGED notWorkVars

\* The rounds some worker is finalizing.
InFlight == {current[w] : w \in {v \in QueueWorkers : workPc[v] # "idle"}}

\* The queued tasks no worker has taken, oldest first.
Waiting(q, busy) == SelectSeq(q, LAMBDA r : r \notin busy)

\* The queue without the task of round r.
Remove(q, r) == SelectSeq(q, LAMBDA x : x # r)

\* The worker takes the oldest waiting task and starts executeWithRetry.
WorkerDequeue(w) ==
    /\ workPc[w] = "idle"
    /\ Waiting(queue, InFlight) # << >>
    /\ current' = [current EXCEPT ![w] = Head(Waiting(queue, InFlight))]
    /\ attempt' = [attempt EXCEPT ![w] = 0]
    /\ workPc' = [workPc EXCEPT ![w] = "submit"]
    /\ UNCHANGED <<queue, finalized, finalizeTxs, tasksAdded>>
    /\ UNCHANGED notWorkVars

\* executeWithRetry: an attempt failed. The operation is run again unless
\* MaxTxSendRetries attempts have failed; then the task is dropped.
AttemptFailed(w) ==
    /\ attempt' = [attempt EXCEPT ![w] = @ + 1]
    /\ IF attempt[w] + 1 >= MaxTxSendRetries
       THEN /\ queue' = Remove(queue, current[w])
            /\ workPc' = [workPc EXCEPT ![w] = "idle"]
            /\ current' = [current EXCEPT ![w] = -1]
       ELSE /\ workPc' = [workPc EXCEPT ![w] = "submit"]
            /\ UNCHANGED <<queue, current>>

\* finalize, first step: the finalization transaction is sent, or sending
\* fails.
FinalizeSubmit(w) ==
    /\ workPc[w] = "submit"
    /\ \E err \in {"nil", "error"} :
         IF err = "nil"
         THEN /\ finalizeTxs' = [finalizeTxs EXCEPT ![current[w]] = @ + 1]
              /\ workPc' = [workPc EXCEPT ![w] = "wait"]
              /\ UNCHANGED <<queue, current, attempt>>
         ELSE /\ AttemptFailed(w)
              /\ UNCHANGED finalizeTxs
    /\ UNCHANGED <<finalized, tasksAdded>>
    /\ UNCHANGED notWorkVars

\* finalize, second step: the transaction is mined, or the wait times out
\* and the attempt counts as failed.
FinalizeWait(w) ==
    /\ workPc[w] = "wait"
    /\ \E err \in {"nil", "timeout"} :
         IF err = "nil"
         THEN /\ finalized' = finalized \cup {current[w]}
              /\ queue' = Remove(queue, current[w])
              /\ workPc' = [workPc EXCEPT ![w] = "idle"]
              /\ current' = [current EXCEPT ![w] = -1]
              /\ UNCHANGED attempt
         ELSE /\ AttemptFailed(w)
              /\ UNCHANGED finalized
    /\ UNCHANGED <<finalizeTxs, tasksAdded>>
    /\ UNCHANGED notWorkVars

WorkNext ==
    \/ EnqueueReady
    \/ \E w \in QueueWorkers : WorkerDequeue(w)
    \/ \E w \in QueueWorkers : FinalizeSubmit(w)
    \/ \E w \in QueueWorkers : FinalizeWait(w)

(***************************************************************************)
(* VotePowerBlockSelectedListener. Time is in seconds. A matching log of   *)
(* the log store has an id, a timestamp and parses or not.                 *)
(***************************************************************************)
\* The epoch read from the chain: RewardEpochsStartTs and
\* RewardEpochDurationSeconds.
EpochStart == 0

EpochPeriod == 2

ListenerInterval == 1

\* epoch.EpochIndex(t) and epoch.StartTime(i).
EpochIndex(t) == (t - EpochStart) \div EpochPeriod

EpochStartTime(i) == EpochStart + i * EpochPeriod

NoEvent == [log |-> 0, block |-> -1]

FeedIdle ==
    /\ feedPc = "start"
    /\ now = 0
    /\ eventRangeStart = 0
    /\ logsDb = << >>
    /\ outCh = << >>
    /\ outReturned = FALSE
    /\ topicErrs = << >>
    /\ queries = << >>
    /\ received = << >>

\* database.FetchLogsByAddressAndTopic0(db, address, topic0, from, to): the
\* matching logs with a timestamp in [from, to), oldest first.
FetchLogs(db, from, to) == SelectSeq(db, LAMBDA l : from <= l.ts /\ l.ts < to)

\* parseVotePowerBlockSelectedEvent(dbLog).
ParseEvent(l) ==
    IF l.ok
    THEN [err |-> FALSE, event |-> [log |-> l.id, block |-> l.ts]]
    ELSE [err |-> TRUE, event |-> NoEvent]

\* Lines 108-110 and 129: the goroutine is started, it computes
\* eventRangeStart, and the channel is returned.
StartGoroutine ==
    /\ feedPc' = "tick"
    /\ eventRangeStart' = EpochStartTime(EpochIndex(now) - 1)
    /\ outReturned' = TRUE

\* A variant of TopicError that goes on without the topic.
TopicErrorIgnored == StartGoroutine

\* Lines 104-107: panic(err).
TopicError ==
    /\ feedPc' = "panic"
    /\ UNCHANGED <<eventRangeStart, outReturned>>

\* VotePowerBlockSelectedListener is called.
ListenerCall ==
    /\ feedPc = "start"
    /\ \E err \in {"nil", "error"} :
         /\ topicErrs' = Append(topicErrs, err)
         /\ IF err # "nil" THEN TopicError ELSE StartGoroutine
    /\ UNCHANGED <<now, logsDb, outCh, queries, received>>
    /\ UNCHANGED notFeedVars

\* A variant of HandOff for a channel with a buffer.
HandOffBuffered(event) ==
    /\ outCh' = Append(outCh, event)
    /\ feedPc' = "tick"

\* out <- powerBlockData on the unbuffered channel: the goroutine blocks
\* until the consumer receives.
HandOff(event) ==
    /\ outCh' = Append(outCh, event)
    /\ feedPc' = "send"

\* A variant of QueryErrorBranch that ends the goroutine.
QueryErrorBranchReturns ==
    /\ feedPc' = "stopped"
    /\ UNCHANGED outCh

\* Lines 115-118: the query failed; log and continue.
QueryErrorBranch ==
    /\ feedPc' = "tick"
    /\ UNCHANGED outCh

\* One iteration of the loop: the ticker fires, the log store is queried,
\* the last log is parsed and its event is handed to out.
Tick ==
    /\ feedPc = "tick"
    /\ now < MaxTime
    /\ now' = now + ListenerInterval
    /\ \E err \in {"nil", "error"} :
         LET logs   == IF err = "nil"
                       THEN FetchLogs(logsDb, eventRangeStart, now')
                       ELSE << >>
             parsed == ParseEvent(logs[Len(logs)])
             sent   == Len(logs) > 0 /\ ~parsed.err
         IN  /\ queries' = Append(queries,
                               [from |-> eventRangeStart, to |-> now',
                                err |-> err, logs |-> logs, sent |-> sent])
             /\ IF err # "nil" THEN QueryErrorBranch
                ELSE IF Len(logs) = 0 \/ parsed.err
                     THEN feedPc' = "tick" /\ UNCHANGED outCh
                     ELSE HandOff(parsed.event)
    /\ UNCHANGED <<eventRangeStart, logsDb, outReturned, topicErrs, received>>
    /\ UNCHANGED notFeedVars

\* The consumer receives from the channel; a goroutine blocked on the send
\* goes on to the next tick.
Receive ==
    /\ outCh # << >>
    /\ received' = Append(received, Head(outCh))
    /\ outCh' = Tail(outCh)
    /\ feedPc' = IF feedPc = "send" THEN "tick" ELSE feedPc
    /\ UNCHANGED <<now, eventRangeStart, logsDb, outReturned, topicErrs,
                   queries>>
    /\ UNCHANGED notFeedVars

\* The indexer stores a matching log of the current time.
NewLog ==
    /\ Len(logsDb) < MaxLogs
    /\ \E ok \in BOOLEAN :
         logsDb' = Append(logsDb, [id |-> Len(logsDb) + 1, ts |-> now,
                                   ok |-> ok])
    /\ UNCHANGED <<feedPc, now, eventRangeStart, outCh, outReturned,
                   topicErrs, queries, received>>
    /\ UNCHANGED notFeedVars

\* Time passes before the listener is called and while the goroutine is
\* blocked on the send.
TimePasses ==
    /\ feedPc \in {"start", "send"}
    /\ now < MaxTime
    /\ now' = now + 1
    /\ UNCHANGED <<feedPc, eventRangeStart, logsDb, outCh, outReturned,
                   topicErrs, queries, received>>
    /\ UNCHANGED notFeedVars

FeedNext ==
    \/ ListenerCall
    \/ Tick
    \/ Receive
    \/ NewLog
    \/ TimePasses

Init == FinInit /\ HashIdle /\ SignIdle /\ WorkIdle /\ FeedIdle

Next == FinNext

Spec == Init /\ [][Next]_vars

(***************************************************************************)
(* SpecHash: SigningPolicyHash called twice on one slice.                  *)
(***************************************************************************)
InitHash == FinInit /\ HashInit /\ SignIdle /\ WorkIdle /\ FeedIdle

NextHash == CallSigningPolicyHash

SpecHash == InitHash /\ [][NextHash]_vars

(***************************************************************************)
(* SpecSign: one call of SignNewSigningPolicy.                             *)
(***************************************************************************)
InitSign == FinInit /\ HashIdle /\ SignIdle /\ WorkIdle /\ FeedIdle

NextSign == SignNext

SpecSign == InitSign /\ [][NextSign]_vars

(***************************************************************************)
(* SpecQueue: the finalization queue, its worker and the routing loop's    *)
(* calls of queueProcessor.Add.                                            *)
(***************************************************************************)
InitQueue == FinInit /\ HashIdle /\ SignIdle /\ WorkIdle /\ FeedIdle

NextQueue == WorkNext

SpecQueue == InitQueue /\ [][NextQueue]_vars

(***************************************************************************)
(* SpecFeed: one VotePowerBlockSelectedListener, the log store and the     *)
(* consumer of its channel.                                                *)
(***************************************************************************)
InitFeed == FinInit /\ HashIdle /\ SignIdle /\ WorkIdle /\ FeedIdle

NextFeed == FeedNext

SpecFeed == InitFeed /\ [][NextFeed]_vars

(***************************************************************************)
(* Properties of the finalizer client, checked under Spec.                 *)
(***************************************************************************)
AddErrors == {"UnknownSigner", "DuplicateSubmission"}

\* C1: queueProcessor.Add is invoked for a voting round exactly once if the
\* round's weight has crossed the threshold and never otherwise; accepted
\* submissions after the crossing do not invoke it again.
C1_EnqueueInvokedExactlyOnce ==
    \A r \in VotingRounds :
        addCalls[r] = IF Aggregate(submissions, r).thresholdReached THEN 1 ELSE 0

\* C2: once a round's thresholdReached is true it is true in every later
\* state, whatever adds follow.
C2_ThresholdReachedMonotonic ==
    [][\A r \in VotingRounds :
          Aggregate(submissions, r).thresholdReached
              => Aggregate(submissions', r).thresholdReached]_vars

\* C2 witness: a round that reached the threshold and then accepted a further
\* submission under a policy by whose total its weight is no majority.
C2_Witness ==
    \E r \in VotingRounds :
        /\ Aggregate(submissions, r).thresholdReached
        /\ usedPolicies[r] = Policies
        /\ 2 * Aggregate(submissions, r).submittedWeight <= TotalWeight(Policy2)

C4_RejectedAddChangesNothing ==
    [][(idx' = idx + 1 /\ lastErr' \in AddErrors)
          => \A r \in VotingRounds :
                Aggregate(submissions', r) = Aggregate(submissions, r)]_vars

\* C4 witness: a duplicate submission was rejected for a round that has an
\* aggregate with accumulated weight.
C4_Witness ==
    /\ lastErr = "DuplicateSubmission"
    /\ \E r \in DOMAIN submissions : submissions[r].submittedWeight > 0

\* C5: when submissionStorage.Add fails for a payload item, the loop goes on
\* to the next item, nothing is enqueued for the failed item and no error is
\* returned; ProcessSubmissionData returns an error only for a missing policy.
C5_AddErrorSkipsOnlyThatItem ==
    /\ [][(idx' = idx + 1 /\ lastErr' \in AddErrors)
             => /\ pc' = "loop"
                /\ payloadLen' = payloadLen
                /\ ret' = "none"
                /\ queue' = queue
                /\ addCalls' = addCalls]_vars
    /\ [](ret = "err" => lastErr = "NoPolicy")
    /\ []((pc = "idle" /\ ret = "nil") => idx = payloadLen)

\* C5 witness: an add failed for an item that is not the last of its payload,
\* and the loop is still running.
C5_Witness ==
    /\ pc = "loop"
    /\ lastErr \in AddErrors
    /\ idx < payloadLen

\* C6: a payload item whose voting round has no signing policy does not stop
\* the routing of the rest: when ProcessSubmissionData has returned, the loop
\* has taken every item of the payload.
C6_NoPolicyDoesNotHaltBatch ==
    (pc = "idle" /\ ret # "none") => idx = payloadLen

\* C7: GetForVotingRound(r) is the unique stored policy with the greatest
\* startVotingRoundId that is at most r, and absent when every stored policy
\* starts after r.
C7_GetForVotingRound ==
    \A r \in VotingRounds :
        LET got    == GetForVotingRound(spList, r)
            stored == {spList[i] : i \in 1..Len(spList)}
            upTo   == {sp \in stored : sp.startVotingRoundId <= r}
        IN  /\ Cardinality(stored) = Len(spList)
            /\ IF upTo = {}
               THEN got = NoPolicy
               ELSE /\ got \in upTo
                    /\ \A sp \in upTo :
                          /\ sp.startVotingRoundId <= got.startVotingRoundId
                          /\ sp.startVotingRoundId = got.startVotingRoundId
                                => sp = got

\* C7 witness: both policies are stored; each round at or after a start gets
\* the policy of the latest such start and round 0 gets none.
C7_Witness ==
    /\ Len(spList) = 2
    /\ GetForVotingRound(spList, 0) = NoPolicy
    /\ GetForVotingRound(spList, 1) = Policy1
    /\ GetForVotingRound(spList, 2) = Policy2

\* C19: when the loop of ProcessSubmissionData takes a submission for a round
\* that no stored policy covers, the call returns an error at that item, the
\* aggregates are left as they were and nothing is enqueued; and a step that
\* adds a policy to the signing policy storage aggregates and enqueues
\* nothing.
C19_SubmissionBeforePolicy ==
    [][ /\ (pc = "loop" /\ lastErr' = "NoPolicy") =>
              /\ GetForVotingRound(spList, errRound') = NoPolicy
              /\ pc' = "idle"
              /\ ret' = "err"
              /\ submissions' = submissions
              /\ queue' = queue
              /\ addCalls' = addCalls
        /\ spList' # spList =>
              /\ submissions' = submissions
              /\ queue' = queue
              /\ addCalls' = addCalls ]_vars

\* C19 witness: a call returned the error for a round whose policy has been
\* stored since, and the round has neither an aggregate nor a queue entry.
C19_Witness ==
    /\ pc = "idle"
    /\ ret = "err"
    /\ lastErr = "NoPolicy"
    /\ errRound \in VotingRounds
    /\ GetForVotingRound(spList, errRound) # NoPolicy
    /\ Aggregate(submissions, errRound) = EmptyAggregate
    /\ \A k \in 1..Len(queue) : queue[k] # errRound

(***************************************************************************)
(* Properties of SigningPolicyHash, checked under SpecHash.                *)
(***************************************************************************)
\* The input right-padded with zero bytes to a multiple of 32.
ZeroPadded(data) ==
    LET rest == Len(data) % 32
    IN  IF rest = 0 THEN data ELSE data \o [i \in 1..(32 - rest) |-> 0]

\* The k-th 32-byte chunk (from 0) of d.
ChunkOf(d, k) == Chunk(SubSeq(d, 32 * k + 1, 32 * k + 32))

RECURSIVE LeftFold(_, _)
\* H(...H(H(chunk0, chunk1), chunk2)..., chunk k), for k >= 1.
LeftFold(d, k) ==
    IF k = 1 THEN Keccak256(ChunkOf(d, 0), ChunkOf(d, 1))
    ELSE Keccak256(LeftFold(d, k - 1), ChunkOf(d, k))

\* C8: for an input whose zero-padded length is 32*n with n >= 2,
\* SigningPolicyHash returns the left fold of H over its chunks in order, for
\* n = 2 exactly H(chunk0, chunk1), and a second call on the same slice
\* returns the same.
C8_HashIsLeftFold ==
    LET d == ZeroPadded(hashIn.data)
        n == Len(d) \div 32
    IN  n >= 2 =>
          /\ \A k \in 1..Len(hashOut) :
                /\ ~hashOut[k].panic
                /\ hashOut[k].hash = LeftFold(d, n - 1)
                /\ n = 2 => hashOut[k].hash =
                               Keccak256(Chunk(SubSeq(d, 1, 32)),
                                         Chunk(SubSeq(d, 33, 64)))
          /\ Len(hashOut) = 2 => hashOut[1] = hashOut[2]

\* C8 witness: the hash was computed twice for an input of more than two
\* chunks that needed padding, held in a slice with spare capacity.
C8_Witness ==
    /\ Len(hashOut) = 2
    /\ Len(hashIn.data) > 64
    /\ Len(hashIn.data) % 32 # 0
    /\ hashIn.spare # << >>
    /\ ~hashOut[2].panic

RECURSIVE HashCount(_)
\* The number of applications of H on the left spine of a block.
HashCount(h) == IF h.of = << >> THEN 0 ELSE 1 + HashCount(h.of[1])

\* C20: SigningPolicyHash returns a hash exactly for the inputs of n >= 2
\* chunks after padding, applying H n-1 times; for an input that pads to
\* fewer than 64 bytes every call fails and returns no hash.
C20_ShortInputFails ==
    LET d == ZeroPadded(hashIn.data)
        n == Len(d) \div 32
    IN  \A k \in 1..Len(hashOut) :
            IF n >= 2
            THEN ~hashOut[k].panic /\ HashCount(hashOut[k].hash) = n - 1
            ELSE hashOut[k].panic

(***************************************************************************)
(* Properties of SignNewSigningPolicy, checked under SpecSign.             *)
(***************************************************************************)
\* C9: the operation is attempted at most MaxTxSendRetries times, no attempt
\* follows a successful one, the completion is success exactly when an
\* attempt succeeded, and after MaxTxSendRetries failures one failed
\* completion is delivered and nothing more is attempted.
C9_RetryBudget ==
    /\ [](/\ Len(sendErrs) <= MaxTxSendRetries
          /\ \A i \in 1..(Len(sendErrs) - 1) : sendErrs[i] # "nil"
          /\ status = "success"
                <=> (Len(sendErrs) > 0 /\ sendErrs[Len(sendErrs)] = "nil")
          /\ status = "failed"
                => /\ Len(sendErrs) = MaxTxSendRetries
                   /\ \A i \in 1..Len(sendErrs) : sendErrs[i] # "nil")
    /\ [][status # "none"
             => (status' = status /\ sendErrs' = sendErrs /\ steps' = steps)]_vars
    /\ [][(signPc = "loop" /\ Len(sendErrs) = MaxTxSendRetries)
             => status' = "failed"]_vars

\* C9 witness: every attempt but the last allowed one failed, the last one
\* succeeded and success was delivered.
C9_Witness ==
    /\ Len(sendErrs) = MaxTxSendRetries
    /\ sendErrs[MaxTxSendRetries] = "nil"
    /\ status = "success"

\* C10: an attempt runs hash, sign, submit, wait in this order, each step only
\* after the one before succeeded; a failed submission or a timed out wait
\* makes the attempt return an error without the success log line, which
\* uses up one attempt, and another attempt starts while the budget lasts.
C10_SendStepsAndRetry ==
    /\ [](/\ Len(steps) <= 4
          /\ \A i \in 1..Len(steps) :
                /\ steps[i].step = <<"hash", "sign", "submit", "wait">>[i]
                /\ i < Len(steps) => steps[i].ok)
    /\ [][(/\ Len(steps') = Len(steps) + 1
           /\ steps'[Len(steps')].step \in {"submit", "wait"}
           /\ ~steps'[Len(steps')].ok)
             => /\ Len(sendErrs') = Len(sendErrs) + 1
                /\ sendErrs'[Len(sendErrs')] # "nil"
                /\ logged' = logged
                /\ status' = "none"
                /\ signPc' = "loop"]_vars
    /\ [][(signPc = "loop" /\ Len(sendErrs) < MaxTxSendRetries)
             => (signPc' = "hash" /\ status' = "none")]_vars

\* C10 witness: the first attempt timed out waiting for its transaction and
\* the second attempt has sent its own.
C10_Witness ==
    /\ Len(sendErrs) = 1
    /\ sendErrs[1] = "timeout"
    /\ signPc = "wait"
    /\ Len(sentTxs) = 2

\* C17: every transaction sent carries the signature's components in their
\* own fields: R is the first 32 bytes of the 65 bytes crypto.Sign returned
\* over the prefixed text hash of the policy hash, S the next 32 and V the
\* last byte.
C17_SignatureComponents ==
    \A k \in 1..Len(sentTxs) :
        LET sig == CryptoSign(TextHash(sentTxs[k].hash))
        IN  /\ sentTxs[k].signature.R = SubSeq(sig, 1, 32)
            /\ sentTxs[k].signature.S = SubSeq(sig, 33, 64)
            /\ sentTxs[k].signature.V = sig[65]
            /\ sentTxs[k].signature.V.part = "v"

Busy == {w \in QueueWorkers : workPc[w] # "idle"}

\* C16: at most one finalize operation is in flight, and it is that of the
\* oldest task of the queue; the queue changes only by an append at its tail
\* or by the removal of its head, and the head is removed only when its
\* finalize has succeeded or its attempts are exhausted; a worker that starts
\* a task starts the head of the queue.
C16_SingleWorkerFifo ==
    /\ [](/\ Cardinality(Busy) <= 1
          /\ \A w \in Busy : queue # << >> /\ current[w] = Head(queue))
    /\ [][ /\ \/ queue' = queue
              \/ \E r \in VotingRounds : queue' = Append(queue, r)
              \/ queue # << >> /\ queue' = Tail(queue)
           /\ (queue # << >> /\ queue' # queue /\ queue' = Tail(queue)) =>
                 \/ Head(queue) \in finalized'
                 \/ \E w \in QueueWorkers :
                       /\ current[w] = Head(queue)
                       /\ attempt'[w] = MaxTxSendRetries
           /\ \A w \in QueueWorkers :
                 (workPc[w] = "idle" /\ workPc'[w] # "idle") =>
                     current'[w] = Head(queue) ]_vars

\* C16 witness: a second task waits in the queue while the worker, after a
\* failed attempt, waits for the first task's transaction to be mined.
C16_Witness ==
    \E w \in QueueWorkers :
        /\ workPc[w] = "wait"
        /\ attempt[w] >= 1
        /\ Len(queue) >= 2
        /\ current[w] = Head(queue)

(***************************************************************************)
(* Properties of VotePowerBlockSelectedListener, checked under SpecFeed.   *)
(***************************************************************************)
\* C12: the first query starts at the look-back start the goroutine
\* computed, and every later query starts where the query before it ended.
C12_WindowMoves ==
    \A i \in 1..Len(queries) :
        IF i = 1
        THEN queries[i].from = eventRangeStart
        ELSE queries[i].from = queries[i - 1].to

\* The event of log l has been received.
Delivered(l) == \E j \in 1..Len(received) : received[j].log = l.id

\* C13: once the loop is through with a query whose logs all parse, every
\* log the query returned has been delivered to the consumer.
C13_EveryLogDelivered ==
    \A i \in 1..Len(queries) :
        ((i < Len(queries) \/ feedPc = "tick")
            /\ \A k \in 1..Len(queries[i].logs) : queries[i].logs[k].ok) =>
        \A k \in 1..Len(queries[i].logs) : Delivered(queries[i].logs[k])

\* C14 as claimed: a failed query hands nothing to the consumer and leaves
\* the goroutine waiting for the next tick, and the next query, when it
\* succeeds with results, hands an event to the consumer.
C14_NextQueryDelivers ==
    \A i \in 1..Len(queries) :
        queries[i].err # "nil" =>
            /\ ~queries[i].sent
            /\ i = Len(queries) => (feedPc = "tick" /\ outCh = << >>)
            /\ i < Len(queries) =>
                  ((queries[i + 1].err = "nil" /\ Len(queries[i + 1].logs) > 0)
                      => queries[i + 1].sent)

\* C14 amended: the next query hands an event to the consumer when it
\* succeeds with results and the last log of the result parses; when that
\* log does not parse, nothing is handed over.
C14_NextQueryDeliversIfParsed ==
    \A i \in 1..Len(queries) :
        queries[i].err # "nil" =>
            /\ ~queries[i].sent
            /\ i = Len(queries) => (feedPc = "tick" /\ outCh = << >>)
            /\ i < Len(queries) =>
                  LET nxt == queries[i + 1]
                  IN  nxt.sent <=>
                        /\ nxt.err = "nil"
                        /\ Len(nxt.logs) > 0
                        /\ nxt.logs[Len(nxt.logs)].ok

\* C14 witness: a query failed and the query of the next tick handed an
\* event to the consumer.
C14_Witness ==
    \E i \in 1..Len(queries) :
        /\ queries[i].err # "nil"
        /\ i < Len(queries)
        /\ queries[i + 1].sent

\* C15: when chain.EventIDFromMetadata fails the listener panics: no
\* goroutine runs, no query is made, no channel is returned, nothing is
\* handed over, the call is not made again and the listener stays there.
C15_TopicErrorPanics ==
    /\ []((\E k \in 1..Len(topicErrs) : topicErrs[k] # "nil") =>
            /\ feedPc = "panic"
            /\ Len(topicErrs) = 1
            /\ queries = << >>
            /\ ~outReturned
            /\ outCh = << >>
            /\ received = << >>)
    /\ [][feedPc = "panic" =>
            UNCHANGED <<feedPc, eventRangeStart, outCh, outReturned,
                        topicErrs, queries, received>>]_vars

\* C15 witness: the listener has panicked while the log store holds logs.
C15_Witness ==
    /\ feedPc = "panic"
    /\ topicErrs = <<"error">>
    /\ logsDb # << >>

\* C18: at most one event is handed over and not received, and exactly then
\* the goroutine is blocked on the send; while it is, no query is made and
\* the listener changes only by the consumer receiving that event.
C18_Rendezvous ==
    /\ [](/\ Len(outCh) <= 1
          /\ outCh # << >> <=> feedPc = "send")
    /\ [][outCh # << >> =>
            /\ queries' = queries
            /\ \/ outCh' = outCh /\ feedPc' = feedPc /\ received' = received
               \/ /\ outCh' = << >>
                  /\ received' = Append(received, Head(outCh))]_vars

\* C18 witness: an event has been received, a later one is held for the
\* consumer, and time has passed since the query that produced it.
C18_Witness ==
    /\ feedPc = "send"
    /\ Len(outCh) = 1
    /\ received # << >>
    /\ now > queries[Len(queries)].to

====
